---- MODULE Spec2Model ----
(***************************************************************************)
(* Model of the aws-tools command-line scripts:                            *)
(*   scripts/aws_ami_finder.py      find-images, 90 day window, fnmatch    *)
(*   scripts/aws_ec2_find_amis.py   find-images, 30 day window, startswith *)
(*   scripts/aws_s3_object_finder.py find-object                           *)
(* Python strings are sequences of one-character strings, so that          *)
(* startswith, fnmatch, the `in` substring test and the ordering of        *)
(* strings are computed as Python computes them.                           *)
(***************************************************************************)
EXTENDS Integers, Sequences, FiniteSets, TLC

VARIABLES
    script,        \* which of the three scripts this process runs
    platform,      \* "posix" or "nt": decides os.path.normcase inside fnmatch
    argv,          \* sys.argv[1:] of a find-images script
    pc,            \* position of the process
    region,        \* args.region
    os_version,    \* args.os_version
    calls,         \* remote API calls issued so far, in order
    printed,       \* what has been printed, in order: <<stream, kind of text>>
    available_regions, \* the list get_available_regions() returned
    exit_status,   \* -1 while running, else the status of the ended process
    CURRENT_TIME,  \* datetime.datetime.now() at import, in ticks
    amis,          \* response['Images'] of describe_images
    latest_amis,   \* the records find_amis retained
    table,         \* the rows handed to tabulate
    args,          \* argparse namespace of the find-object script
    listing,       \* the pages the paginator will yield
    fetched,       \* number of pages fetched from the paginator so far
    objects,       \* keys reported by search_s3_object
    tested,        \* os-version strings compared so far (validator comparison)
    acceptedFinder,\* of those, accepted by aws_ami_finder.py
    acceptedEc2    \* of those, accepted by aws_ec2_find_amis.py

vars == <<script, platform, argv, pc, region, os_version, calls, printed,
          available_regions,
          exit_status, CURRENT_TIME, amis, latest_amis, table, args, listing,
          fetched, objects, tested, acceptedFinder, acceptedEc2>>

amiVars == <<argv, region, os_version, available_regions, CURRENT_TIME, amis,
            latest_amis, table>>
s3Vars == <<args, listing, fetched, objects>>
osVars == <<tested, acceptedFinder, acceptedEc2>>

----------------------------------------------------------------------------
(* Bounds of the model *)

\* longest describe_images response
MaxImages == 2
\* most pages in one listing
MaxPages == 2
\* most keys in one page
MaxKeys == 2
\* resolution of the clock: ticks in one day
TicksPerDay == 2

----------------------------------------------------------------------------
(* Python strings *)

\* ord(c) for the characters used
ord ==
    ("-" :> 45) @@ ("/" :> 47) @@ ("0" :> 48) @@ ("1" :> 49) @@ ("2" :> 50) @@
    ("4" :> 52) @@ ("6" :> 54) @@ ("8" :> 56) @@ ("9" :> 57) @@
    ("B" :> 66) @@ ("E" :> 69) @@ ("S" :> 83) @@ ("W" :> 87) @@ ("_" :> 95) @@
    ("a" :> 97) @@ ("b" :> 98) @@ ("c" :> 99) @@ ("d" :> 100) @@ ("e" :> 101) @@
    ("g" :> 103) @@ ("h" :> 104) @@ ("i" :> 105) @@ ("j" :> 106) @@
    ("l" :> 108) @@ ("m" :> 109) @@ ("n" :> 110) @@ ("o" :> 111) @@
    ("r" :> 114) @@ ("s" :> 115) @@ ("t" :> 116) @@ ("u" :> 117) @@
    ("v" :> 118) @@ ("w" :> 119) @@ ("x" :> 120) @@ ("y" :> 121) @@
    ("z" :> 122) @@ ("*" :> 42)

\* str.lower() on one character
lower(c) ==
    CASE c = "B" -> "b"
      [] c = "E" -> "e"
      [] c = "S" -> "s"
      [] c = "W" -> "w"
      [] OTHER -> c

\* s.startswith(p)
startswith(s, p) ==
    /\ Len(p) <= Len(s)
    /\ SubSeq(s, 1, Len(p)) = p

\* p in s   (substring containment, case-sensitive)
contains(s, p) ==
    \E i \in 0..(Len(s) - Len(p)) : SubSeq(s, i + 1, i + Len(p)) = p

\* s < t in Python's ordering of str: first differing code point, else length
RECURSIVE str_lt(_, _)
str_lt(s, t) ==
    IF t = <<>> THEN FALSE
    ELSE IF s = <<>> THEN TRUE
    ELSE IF ord[Head(s)] # ord[Head(t)] THEN ord[Head(s)] < ord[Head(t)]
    ELSE str_lt(Tail(s), Tail(t))

\* os.path.normcase: lower-cases on Windows, the identity on POSIX
normcase(s, plat) ==
    IF plat = "nt" THEN [i \in 1..Len(s) |-> lower(s[i])] ELSE s

\* fnmatch.fnmatchcase for patterns whose only wildcard is "*"
RECURSIVE fnmatchcase(_, _)
fnmatchcase(name, pat) ==
    IF pat = <<>> THEN name = <<>>
    ELSE IF Head(pat) = "*"
         THEN \E k \in 0..Len(name) :
                 fnmatchcase(SubSeq(name, k + 1, Len(name)), Tail(pat))
    ELSE /\ name # <<>>
         /\ Head(name) = Head(pat)
         /\ fnmatchcase(Tail(name), Tail(pat))

\* fnmatch.fnmatch(name, pat): both sides pass through normcase first
fnmatch(name, pat, plat) ==
    fnmatchcase(normcase(name, plat), normcase(pat, plat))

----------------------------------------------------------------------------
(* The OS-version allow-lists *)

amzn2 == <<"a","m","z","n","2">>
debian == <<"d","e","b","i","a","n">>
rhel == <<"r","h","e","l">>
suse == <<"s","u","s","e">>
ubuntu == <<"u","b","u","n","t","u">>
Windows == <<"W","i","n","d","o","w","s">>
debian_11 == debian \o <<"-","1","1">>
ubuntu_jammy == ubuntu \o <<"-","j","a","m","m","y">>
Windows_Server_2019_English ==
    Windows \o <<"_","S","e","r","v","e","r","-","2","0","1","9","-",
                 "E","n","g","l","i","s","h">>

\* aws_ami_finder.py get_valid_os_versions()
get_valid_os_versions ==
    << amzn2, debian \o <<"*">>, rhel \o <<"*">>, suse \o <<"*">>,
       ubuntu \o <<"*">>, Windows \o <<"*">> >>

\* aws_ec2_find_amis.py validate_os_version: valid_os_versions
valid_os_versions ==
    << amzn2, debian_11, ubuntu_jammy, Windows_Server_2019_English >>

\* faulty variant: every pattern taken as a prefix, as in aws_ec2_find_amis.py
FinderAcceptsOs_prefix(os, plat) ==
    /\ os # <<>>
    /\ \E p \in {amzn2, debian, rhel, suse, ubuntu, Windows} :
          startswith(normcase(os, plat), normcase(p, plat))

\* aws_ami_finder.py validate_inputs, the os-version test: TRUE when accepted
FinderAcceptsOs(os, plat) ==
    ~ ( os = <<>> \/
        ~ \E i \in DOMAIN get_valid_os_versions :
              fnmatch(os, get_valid_os_versions[i], plat) )

\* aws_ec2_find_amis.py validate_inputs + validate_os_version: TRUE when the
\* process is not ended by the os-version test
Ec2AcceptsOs(os) ==
    IF os # <<>>
    THEN \E i \in DOMAIN valid_os_versions : startswith(os, valid_os_versions[i])
    ELSE TRUE

----------------------------------------------------------------------------
(* find-images: inputs *)

FINDER == "aws_ami_finder.py"
EC2 == "aws_ec2_find_amis.py"
S3 == "aws_s3_object_finder.py"

us_east_1 == <<"u","s","-","e","a","s","t","-","1">>
us_west_2 == <<"u","s","-","w","e","s","t","-","2">>
eu_north_9 == <<"e","u","-","n","o","r","t","h","-","9">>
centos == <<"c","e","n","t","o","s">>

\* region arguments tried: empty, listed, not listed
RegionInputs == { <<>>, us_east_1, eu_north_9 }

\* os-version arguments tried
OsInputs ==
    { <<>>, amzn2, amzn2 \o <<"-","x">>, rhel \o <<"8">>, centos,
      <<"w","i","n","d","o","w","s">> }

\* sys.argv[1:]: nothing, one, two or three positional arguments
ArgvInputs ==
    { <<>> } \cup { <<r>> : r \in RegionInputs }
      \cup { <<r, o>> : r \in RegionInputs, o \in OsInputs }
      \cup { <<us_east_1, amzn2, amzn2>> }

\* responses of describe_regions
RegionResponses == { <<us_east_1, us_west_2>>, <<us_west_2>> }

\* the wall clock readings tried
NowInputs == { 100 * TicksPerDay + 1 }

\* DAYS_THRESHOLD of each script
DAYS_THRESHOLD(scr) == IF scr = FINDER THEN 90 ELSE 30

\* DATE_THRESHOLD = CURRENT_TIME - timedelta(days=DAYS_THRESHOLD)
DATE_THRESHOLD(scr, now) == now - DAYS_THRESHOLD(scr) * TicksPerDay

\* A CreationDate text: the instant it writes, and whether it carries the
\* fractional seconds and the trailing Z that "%Y-%m-%dT%H:%M:%S.%fZ" demands
CreationDates(scr, now) ==
    { [instant |-> DATE_THRESHOLD(scr, now) + d, fraction |-> TRUE, zulu |-> TRUE] :
          d \in {-1, 0, 1} }
    \cup { [instant |-> DATE_THRESHOLD(scr, now) + 1, fraction |-> FALSE, zulu |-> TRUE] }

arm64 == <<"a","r","m","6","4">>
x86_64 == <<"x","8","6","_","6","4">>

\* image records a describe_images call filtered by '*'+os_version+'*' can return
ImageRecords(scr, now, os) ==
    [ ImageId : { <<"a","m","i","-","0">> },
      Name : { os \o <<"-","a">>, os \o <<"-","b">> },
      Architecture : { arm64, x86_64 },
      VirtualizationType : { <<"h","v","m">> },
      CreationDate : CreationDates(scr, now) ]

ImageLists(scr, now, os) ==
    UNION { [1..n -> ImageRecords(scr, now, os)] : n \in 0..MaxImages }

----------------------------------------------------------------------------
(* find-images: find_amis *)

\* faulty variant: a format that tolerates a missing fractional part
strptime_raises_lenient(text) == ~ text.zulu

\* datetime.strptime(text, "%Y-%m-%dT%H:%M:%S.%fZ") raises ValueError
strptime_raises(text) == ~ (text.fraction /\ text.zulu)

\* the datetime strptime returns when it does not raise
strptime(text) == text.instant

\* faulty variant: the sort key is the name alone
key_lt_name_only(a, b) == str_lt(a.Name, b.Name)

\* key=lambda x: (x['Architecture'], x['Name']), compared as Python tuples
key_lt(a, b) ==
    \/ str_lt(a.Architecture, b.Architecture)
    \/ /\ a.Architecture = b.Architecture
       /\ str_lt(a.Name, b.Name)

\* sorted(): stable, ascending by key
RECURSIVE insert(_, _)
insert(x, s) ==
    IF s = <<>> THEN <<x>>
    ELSE IF key_lt(x, Head(s)) THEN <<x>> \o s
    ELSE <<Head(s)>> \o insert(x, Tail(s))

RECURSIVE sorted(_)
sorted(s) ==
    IF s = <<>> THEN <<>>
    ELSE insert(s[Len(s)], sorted(SubSeq(s, 1, Len(s) - 1)))

\* faulty variant: the bound taken as exclusive
within_window_strict(creation_date, threshold) == creation_date > threshold

\* creation_date >= DATE_THRESHOLD
within_window(creation_date, threshold) == creation_date >= threshold

\* the loop over sorted_amis, when no strptime raises
RECURSIVE latest(_, _)
latest(s, threshold) ==
    IF s = <<>> THEN <<>>
    ELSE IF within_window(strptime(Head(s).CreationDate), threshold)
         THEN <<Head(s)>> \o latest(Tail(s), threshold)
         ELSE latest(Tail(s), threshold)

\* the loop over sorted_amis ends in ValueError
loop_raises(s) == \E i \in DOMAIN s : strptime_raises(s[i].CreationDate)

\* one row of the table; the colour codes wrap the id and the architecture
row(ami) ==
    << <<"CYAN">> \o ami.ImageId \o <<"RESET">>,
       ami.Name,
       <<"GREEN">> \o ami.Architecture \o <<"RESET">>,
       ami.VirtualizationType >>

describe_regions_call(scr) ==
    [ api |-> "describe_regions",
      region_name |-> IF scr = FINDER THEN us_west_2 ELSE <<>>,
      name_filter |-> <<>> ]

describe_images_call(reg, os) ==
    [ api |-> "describe_images",
      region_name |-> reg,
      name_filter |-> <<"*">> \o os \o <<"*">> ]

Exit(status) ==
    /\ exit_status' = status
    /\ pc' = "exit"

Emit(kinds) == printed' = printed \o kinds

----------------------------------------------------------------------------
(* find-images: the process *)

InitAmi ==
    /\ script \in {FINDER, EC2}
    /\ platform \in (IF script = FINDER THEN {"posix", "nt"} ELSE {"posix"})
    /\ argv \in ArgvInputs
    /\ CURRENT_TIME \in NowInputs
    /\ pc = "main"
    /\ region = <<>>
    /\ os_version = <<>>
    /\ calls = <<>>
    /\ printed = <<>>
    /\ available_regions = <<>>
    /\ exit_status = -1
    /\ amis = <<>>
    /\ latest_amis = <<>>
    /\ table = <<>>
    /\ args = <<>>
    /\ listing = <<>>
    /\ fetched = 0
    /\ objects = <<>>
    /\ tested = {}
    /\ acceptedFinder = {}
    /\ acceptedEc2 = {}

\* aws_ami_finder.py main: len(sys.argv) < 3 prints the usage and sys.exit()
main_usage ==
    /\ pc = "main"
    /\ script = FINDER
    /\ Len(argv) < 2
    /\ Emit(<< <<"stdout", "usage">>, <<"stdout", "available_os_versions">> >>)
    /\ Exit(0)
    /\ UNCHANGED <<script, platform, calls, amiVars, s3Vars, osVars>>

\* parse_arguments: argparse ends the process with status 2 and the usage on
\* stderr unless exactly two positional arguments are given
parse_arguments_error ==
    /\ pc = "main"
    /\ ~ (script = FINDER /\ Len(argv) < 2)
    /\ Len(argv) # 2
    /\ Emit(<< <<"stderr", "usage">> >>)
    /\ Exit(2)
    /\ UNCHANGED <<script, platform, calls, amiVars, s3Vars, osVars>>

\* parse_arguments returns (args.region, args.os_version)
parse_arguments ==
    /\ pc = "main"
    /\ Len(argv) = 2
    /\ region' = argv[1]
    /\ os_version' = argv[2]
    /\ pc' = "validate_inputs"
    /\ UNCHANGED <<script, platform, argv, calls, printed, available_regions,
                   exit_status, CURRENT_TIME, amis, latest_amis, table,
                   s3Vars, osVars>>

\* the os-version half of validate_inputs, of the script that runs
os_version_accepted(scr, os, plat) ==
    IF scr = FINDER THEN FinderAcceptsOs(os, plat) ELSE Ec2AcceptsOs(os)

\* validate_inputs, after the region test has passed or been skipped
validate_os(regs) ==
    IF os_version_accepted(script, os_version, platform)
    THEN /\ pc' = "find_amis"
         /\ UNCHANGED <<printed, exit_status>>
    ELSE /\ Emit(<< <<"stdout", "invalid_os_version">>,
                    <<"stdout", "available_os_versions">> >>)
         /\ Exit(0)

\* validate_inputs(region, os_version)
validate_inputs ==
    /\ pc = "validate_inputs"
    /\ IF region # <<>>
       THEN \E configured \in (IF script = EC2 THEN BOOLEAN ELSE {TRUE}) :
              IF ~ configured
              THEN \* boto3.client('ec2') with no default region: NoRegionError
                   /\ Emit(<< <<"stderr", "traceback">> >>)
                   /\ Exit(1)
                   /\ UNCHANGED <<calls, available_regions>>
              ELSE \E regs \in RegionResponses :
                   /\ calls' = Append(calls, describe_regions_call(script))
                   /\ available_regions' = regs
                   /\ IF \A i \in DOMAIN regs : regs[i] # region
                      THEN /\ Emit(<< <<"stdout", "invalid_region">>,
                                      <<"stdout", "available_regions">> >>)
                           /\ Exit(0)
                      ELSE validate_os(regs)
       ELSE /\ validate_os(<<>>)
            /\ UNCHANGED <<calls, available_regions>>
    /\ UNCHANGED <<script, platform, argv, region, os_version, CURRENT_TIME,
                   amis, latest_amis, table, s3Vars, osVars>>

\* find_amis(region, os_version)
find_amis ==
    /\ pc = "find_amis"
    /\ \E client_ok \in (IF region = <<>> THEN BOOLEAN ELSE {TRUE}) :
         IF ~ client_ok
         THEN \* boto3.client('ec2', region_name='') refused by the SDK
              /\ Emit(<< <<"stderr", "traceback">> >>)
              /\ Exit(1)
              /\ UNCHANGED <<calls, amis, latest_amis, table>>
         ELSE \E images \in ImageLists(script, CURRENT_TIME, os_version) :
              /\ calls' = Append(calls, describe_images_call(region, os_version))
              /\ amis' = images
              /\ LET sorted_amis == sorted(images) IN
                 IF loop_raises(sorted_amis)
                 THEN /\ Emit(<< <<"stderr", "traceback">> >>)
                      /\ Exit(1)
                      /\ UNCHANGED <<latest_amis, table>>
                 ELSE /\ latest_amis' =
                            latest(sorted_amis, DATE_THRESHOLD(script, CURRENT_TIME))
                      /\ table' = [i \in DOMAIN latest_amis' |-> row(latest_amis'[i])]
                      /\ Emit(<< <<"stdout", "table">> >>)
                      /\ Exit(0)
    /\ UNCHANGED <<script, platform, argv, region, os_version, available_regions,
                   CURRENT_TIME, s3Vars, osVars>>

NextAmi ==
    \/ main_usage
    \/ parse_arguments_error
    \/ parse_arguments
    \/ validate_inputs
    \/ find_amis

SpecAmi == InitAmi /\ [][NextAmi]_vars

----------------------------------------------------------------------------
(* find-images: properties *)

Range(s) == { s[i] : i \in DOMAIN s }

Count(s, x) == Cardinality({ i \in DOMAIN s : s[i] = x })

Issued(api) == \E i \in DOMAIN calls : calls[i].api = api

TablePrinted == pc = "exit" /\ <<"stdout", "table">> \in Range(printed)

\* the cell without the colour code before it and the reset code after it
Uncoloured(cell) == SubSeq(cell, 2, Len(cell) - 1)

C2_TableOrdered ==
    TablePrinted =>
      \A i, j \in DOMAIN table :
         i < j =>
           ~ ( \/ str_lt(Uncoloured(table[j][3]), Uncoloured(table[i][3]))
               \/ /\ Uncoloured(table[j][3]) = Uncoloured(table[i][3])
                  /\ str_lt(table[j][2], table[i][2]) )

\* C2 witness: two rows printed from a response that listed them in the
\* opposite order, the architectures differing
C2_Witness ==
    /\ TablePrinted
    /\ Len(table) = 2
    /\ Len(amis) = 2
    /\ str_lt(amis[2].Architecture, amis[1].Architecture)
    /\ str_lt(amis[1].Name, amis[2].Name)

\* C8: if any record of the response has a malformed creation timestamp, the
\* run ends in an uncaught failure (status 1, traceback) and no table is
\* printed, wherever that record stands.
C8_MalformedIsFatal ==
    ( /\ pc = "exit"
      /\ Issued("describe_images")
      /\ \E i \in DOMAIN amis :
            ~ (amis[i].CreationDate.fraction /\ amis[i].CreationDate.zulu) )
    => /\ exit_status = 1
       /\ <<"stderr", "traceback">> \in Range(printed)
       /\ <<"stdout", "table">> \notin Range(printed)
       /\ table = <<>>

\* C8 witness: the malformed record is last in the response and a record
\* within the window precedes it
C8_Witness ==
    /\ pc = "exit"
    /\ Len(amis) = 2
    /\ ~ amis[2].CreationDate.fraction
    /\ amis[1].CreationDate.fraction
    /\ amis[1].CreationDate.instant >
          CURRENT_TIME - DAYS_THRESHOLD(script) * TicksPerDay
    /\ str_lt(amis[1].Architecture, amis[2].Architecture)
    /\ exit_status = 1

\* the input failed validation: too few arguments (aws_ami_finder.py), a
\* region outside the list the provider returned, or an os-version the
\* script's validation rejects
ValidationFailed ==
    \/ script = FINDER /\ Len(argv) < 2
    \/ /\ Issued("describe_regions")
       /\ region \notin Range(available_regions)
    \/ /\ Len(argv) = 2
       /\ region = <<>> \/ (Issued("describe_regions") /\ region \in Range(available_regions))
       /\ ~ os_version_accepted(script, os_version, platform)

\* C5: whenever validation fails, the usage or available-values text is
\* printed and the process exits with a non-zero status.
C5_ValidationFailureExitsNonZero ==
    (pc = "exit" /\ ValidationFailed) =>
       /\ \E k \in {"usage", "available_regions", "available_os_versions"} :
             <<"stdout", k>> \in Range(printed)
       /\ exit_status # 0

\* the allow-list of the script, as the claim reads it: the whole string
\* matches a glob (aws_ami_finder.py), the string starts with an entry
\* (aws_ec2_find_amis.py)
AllowListAccepts(scr, os, plat) ==
    IF scr = FINDER
    THEN \E i \in DOMAIN get_valid_os_versions :
            fnmatch(os, get_valid_os_versions[i], plat)
    ELSE \E i \in DOMAIN valid_os_versions : startswith(os, valid_os_versions[i])

\* C9: describe_images is issued only when the region is a member of the
\* list describe_regions returned and the os-version is accepted by the
\* allow-list; for every other pair, empty strings included, no image listing
\* call is made.
C9_ListingOnlyAfterValidation ==
    Issued("describe_images") =>
       /\ Issued("describe_regions")
       /\ region \in Range(available_regions)
       /\ AllowListAccepts(script, os_version, platform)

----------------------------------------------------------------------------
(* find-object: inputs *)

\* Python's None, kept apart from every string
None == <<"<None>">>

\* bool(v) of an optional string: None and '' are falsy
truthy(v) == v # None /\ v # <<>>

key_ab == <<"a","b">>
key_B == <<"B">>
key_b_a == <<"b","/","a">>

\* object keys the bucket may hold
KeyInputs == { key_ab, key_B, key_b_a }

\* --object values tried
ObjectInputs == { None, <<>>, <<"b">>, key_ab }

\* --bucket values tried
BucketInputs == { None, <<>>, <<"b","k","t">> }

\* --prefix values tried
PrefixInputs == { None, <<"b","/">> }

\* --profile values tried (the flag is required)
ProfileInputs == { None, <<"d","e","v">> }

CommandInputs == { "none", "list-buckets", "list-prefixes" }

ArgsInputs ==
    [ profile : ProfileInputs, bucket : BucketInputs, object : ObjectInputs,
      prefix : PrefixInputs, command : CommandInputs ]

\* the keys list_objects_v2 returns under list_objects_args
ListedKeys(prefix) ==
    IF truthy(prefix) THEN { k \in KeyInputs : startswith(k, prefix) } ELSE KeyInputs

\* one page of list_objects_v2: without 'Contents', or with one to MaxKeys keys
Pages(prefix) ==
    { [present |-> FALSE, Contents |-> <<>>] }
    \cup { [present |-> TRUE, Contents |-> c] :
              c \in UNION { [1..n -> ListedKeys(prefix)] : n \in 1..MaxKeys } }

\* what the paginator yields: one to MaxPages pages
Listings(prefix) == UNION { [1..n -> Pages(prefix)] : n \in 1..MaxPages }

\* pages of the Delimiter='/' listing: with or without 'CommonPrefixes'
PrefixListings == UNION { [1..n -> BOOLEAN] : n \in 1..MaxPages }

----------------------------------------------------------------------------
(* find-object: the process *)

InitS3 ==
    /\ script = S3
    /\ platform = "posix"
    /\ args \in ArgsInputs
    /\ pc = "parse_args"
    /\ argv = <<>>
    /\ CURRENT_TIME = 0
    /\ region = <<>>
    /\ os_version = <<>>
    /\ calls = <<>>
    /\ printed = <<>>
    /\ available_regions = <<>>
    /\ exit_status = -1
    /\ amis = <<>>
    /\ latest_amis = <<>>
    /\ table = <<>>
    /\ listing = <<>>
    /\ fetched = 0
    /\ objects = <<>>
    /\ tested = {}
    /\ acceptedFinder = {}
    /\ acceptedEc2 = {}

\* parse_args() returns args (TRUE) or prints the usage and returns None
parse_args_returns_args(a) ==
    IF a.command = "list-buckets" THEN TRUE
    ELSE IF a.command = "list-prefixes" /\ truthy(a.bucket) THEN TRUE
    ELSE IF \/ ~ truthy(a.bucket)
            \/ (~ truthy(a.bucket) /\ ~ (a.command = "list-prefixes"))
            \/ ~ truthy(a.object)
         THEN FALSE
    ELSE TRUE

\* parser.parse_args(): --profile is required; argparse exits with status 2
parse_args_error ==
    /\ pc = "parse_args"
    /\ args.profile = None
    /\ Emit(<< <<"stderr", "usage">> >>)
    /\ Exit(2)
    /\ UNCHANGED <<script, platform, calls, amiVars, s3Vars, osVars>>

\* parse_args()
parse_args ==
    /\ pc = "parse_args"
    /\ args.profile # None
    /\ IF parse_args_returns_args(args)
       THEN /\ pc' = "main_args"
            /\ UNCHANGED printed
       ELSE /\ pc' = "main_None"
            /\ Emit(<< <<"stdout", "usage">> >>)
    /\ UNCHANGED <<script, platform, calls, exit_status, amiVars, s3Vars, osVars>>

\* main(): if not args: return
main_return ==
    /\ pc = "main_None"
    /\ Exit(0)
    /\ UNCHANGED <<script, platform, calls, printed, amiVars, s3Vars, osVars>>

\* faulty variant: the search is tried before the subcommands
dispatch_search_first(a) ==
    IF truthy(a.bucket) /\ truthy(a.object) THEN "search_s3_object"
    ELSE IF a.command = "list-buckets" THEN "list_buckets"
    ELSE "list_prefixes"

\* main(): the function the if/elif/else chain calls
dispatch(a) ==
    IF a.command = "list-buckets" THEN "list_buckets"
    ELSE IF a.command = "list-prefixes" THEN "list_prefixes"
    ELSE "search_s3_object"

s3_call(fn, api, page) == [ fn |-> fn, api |-> api, page |-> page ]

\* list_buckets(profile_name)
list_buckets ==
    /\ pc = "main_args"
    /\ dispatch(args) = "list_buckets"
    /\ calls' = Append(calls, s3_call("list_buckets", "list_buckets", 1))
    /\ Emit(<< <<"stdout", "bucket_names">> >>)
    /\ Exit(0)
    /\ UNCHANGED <<script, platform, amiVars, s3Vars, osVars>>

\* list_prefixes(profile_name, bucket_name): every page is fetched
list_prefixes ==
    /\ pc = "main_args"
    /\ dispatch(args) = "list_prefixes"
    /\ \E pages \in PrefixListings :
         /\ calls' = calls \o
               [i \in DOMAIN pages |-> s3_call("list_prefixes", "list_objects_v2", i)]
         /\ IF \E i \in DOMAIN pages : pages[i]
            THEN Emit(<< <<"stdout", "prefixes">> >>)
            ELSE Emit(<< <<"stdout", "no_prefixes">> >>)
    /\ Exit(0)
    /\ UNCHANGED <<script, platform, amiVars, s3Vars, osVars>>

\* search_s3_object, up to page_iterator = paginator.paginate(...): no page
\* is fetched yet
search_s3_object ==
    /\ pc = "main_args"
    /\ dispatch(args) = "search_s3_object"
    /\ listing' \in Listings(args.prefix)
    /\ fetched' = 0
    /\ pc' = "search_loop"
    /\ UNCHANGED <<script, platform, calls, printed, exit_status, amiVars, args,
                   objects, osVars>>

\* faulty variant: a prefix test in place of the substring test
key_matches_prefix(key, object_name) == startswith(key, object_name)

\* [obj['Key'] for obj in page['Contents'] if object_name in obj['Key']]
key_matches(key, object_name) == contains(key, object_name)

matching(page, object_name) ==
    IF page.present
    THEN SelectSeq(page.Contents, LAMBDA k : key_matches(k, object_name))
    ELSE <<>>

\* faulty variant: the loop gives up after the first page
exhausted_after_first(n, pages) == n >= 1

\* the page iterator has no further page
exhausted(n, pages) == n >= Len(pages)

\* one turn of `for page in page_iterator`: fetch the next page, examine it
search_page ==
    /\ pc = "search_loop"
    /\ ~ exhausted(fetched, listing)
    /\ fetched' = fetched + 1
    /\ calls' = Append(calls, s3_call("search_s3_object", "list_objects_v2", fetched + 1))
    /\ LET found == matching(listing[fetched + 1], args.object) IN
         IF found # <<>>
         THEN /\ objects' = found
              /\ Emit(<< <<"stdout", "found">>, <<"stdout", "matching_keys">> >>)
              /\ Exit(0)
         ELSE UNCHANGED <<objects, printed, exit_status, pc>>
    /\ UNCHANGED <<script, platform, amiVars, args, listing, osVars>>

\* the loop ended without a return
search_not_found ==
    /\ pc = "search_loop"
    /\ exhausted(fetched, listing)
    /\ Emit(<< <<"stdout", "not_found">> >>)
    /\ Exit(0)
    /\ UNCHANGED <<script, platform, calls, amiVars, s3Vars, osVars>>

NextS3 ==
    \/ parse_args_error
    \/ parse_args
    \/ main_return
    \/ list_buckets
    \/ list_prefixes
    \/ search_s3_object
    \/ search_page
    \/ search_not_found

SpecS3 == InitS3 /\ [][NextS3]_vars

----------------------------------------------------------------------------
(* find-object: properties *)

CallsOf(fn) == { i \in DOMAIN calls : calls[i].fn = fn }

SearchRan == pc \in {"search_loop", "exit"} /\ listing # <<>>

\* the page holds a key of which the target is a case-sensitive substring
PageHasMatch(page, target) ==
    /\ page.present
    /\ \E i \in DOMAIN page.Contents :
          \E j \in 0..(Len(page.Contents[i]) - Len(target)) :
             \A k \in 1..Len(target) : page.Contents[i][j + k] = target[k]

\* the keys of the page that contain the target, in the page's order
KeysWithTarget(page, target) ==
    SelectSeq(page.Contents,
              LAMBDA key : PageHasMatch([present |-> TRUE, Contents |-> <<key>>], target))

MatchPages == { i \in DOMAIN listing : PageHasMatch(listing[i], args.object) }

FirstMatch == CHOOSE i \in MatchPages : \A j \in MatchPages : i <= j

C3_WitnessEarlyReturn ==
    /\ SearchRan
    /\ pc = "exit"
    /\ MatchPages # {}
    /\ FirstMatch < Len(listing)
    /\ fetched < Len(listing)

\* C4: if no key of any page contains the target, the search ends with the
\* "not found" message after fetching every page, and never reports "found";
\* "found" and "not found" are never both reported.
C4_NotFoundAfterAllPages ==
    /\ (SearchRan /\ MatchPages = {}) =>
          /\ <<"stdout", "found">> \notin Range(printed)
          /\ pc = "exit" =>
               /\ fetched = Len(listing)
               /\ Cardinality(CallsOf("search_s3_object")) = Len(listing)
               /\ printed = << <<"stdout", "not_found">> >>
    /\ ~ ( /\ <<"stdout", "found">> \in Range(printed)
           /\ <<"stdout", "not_found">> \in Range(printed) )

\* C4 witness: two pages with keys, none containing the target, both fetched
C4_Witness ==
    /\ SearchRan
    /\ pc = "exit"
    /\ Len(listing) = 2
    /\ listing[1].present
    /\ listing[2].present
    /\ MatchPages = {}
    /\ <<"stdout", "not_found">> \in Range(printed)

\* a required flag is missing on the search path
MissingRequiredFlag ==
    /\ args.profile # None
    /\ \/ /\ args.command = "none"
          /\ args.bucket = None \/ args.object = None
       \/ /\ args.command = "list-prefixes"
          /\ args.bucket = None

\* C6: when a required flag is missing on the search path, the usage is
\* printed, no listing call is made, and the process exits non-zero.
C6_MissingFlagExitsNonZero ==
    (pc = "exit" /\ MissingRequiredFlag) =>
       /\ <<"stdout", "usage">> \in Range(printed)
       /\ calls = <<>>
       /\ exit_status # 0

\* C7: list-buckets runs the bucket listing alone; list-prefixes with a
\* bucket runs the prefix listing alone; the key search runs only with no
\* subcommand and both --bucket and --object set; at most one of the three
\* runs in one invocation.
C7_SubcommandsShortCircuit ==
    /\ \A i \in DOMAIN calls :
          /\ calls[i].fn = calls[1].fn
          /\ calls[i].fn = "list_buckets" => args.command = "list-buckets"
          /\ calls[i].fn = "list_prefixes" =>
                (args.command = "list-prefixes" /\ truthy(args.bucket))
          /\ calls[i].fn = "search_s3_object" =>
                /\ args.command = "none"
                /\ truthy(args.bucket)
                /\ truthy(args.object)
    /\ (pc = "search_loop") =>
          (args.command = "none" /\ truthy(args.bucket) /\ truthy(args.object))
    /\ (pc = "exit" /\ exit_status = 0 /\ args.command = "list-buckets") =>
          (CallsOf("list_buckets") = {1} /\ Len(calls) = 1)
    /\ (pc = "exit" /\ exit_status = 0 /\ args.command = "list-prefixes"
          /\ truthy(args.bucket)) =>
          (CallsOf("list_prefixes") # {} /\ CallsOf("list_prefixes") = DOMAIN calls)

\* C7 witness: list-buckets given together with --bucket, --object and
\* --prefix: the bucket listing ran and nothing else
C7_Witness ==
    /\ pc = "exit"
    /\ args.command = "list-buckets"
    /\ truthy(args.bucket)
    /\ truthy(args.object)
    /\ truthy(args.prefix)
    /\ CallsOf("list_buckets") = {1}

\* C7 witness: list-prefixes given with --bucket and --object: the prefix
\* listing ran
C7_WitnessPrefixes ==
    /\ pc = "exit"
    /\ args.command = "list-prefixes"
    /\ truthy(args.object)
    /\ CallsOf("list_prefixes") # {}

----------------------------------------------------------------------------
(* The two os-version validators compared on the same strings *)

OsUniverse ==
    OsInputs \cup
    { debian_11, debian \o <<"-","1","2">>, ubuntu_jammy,
      Windows_Server_2019_English, Windows \o <<"_","S","e","r","v","e","r">>,
      suse \o <<"-","s","l","e","s">> }

InitOs ==
    /\ script \in {FINDER}
    /\ platform \in {"posix", "nt"}
    /\ pc = "compare"
    /\ tested = {}
    /\ acceptedFinder = {}
    /\ acceptedEc2 = {}
    /\ argv = <<>>
    /\ CURRENT_TIME = 0
    /\ region = <<>>
    /\ os_version = <<>>
    /\ calls = <<>>
    /\ printed = <<>>
    /\ available_regions = <<>>
    /\ exit_status = -1
    /\ amis = <<>>
    /\ latest_amis = <<>>
    /\ table = <<>>
    /\ args = <<>>
    /\ listing = <<>>
    /\ fetched = 0
    /\ objects = <<>>

\* hand one more string to both validators
TestOs ==
    /\ pc = "compare"
    /\ \E os \in OsUniverse \ tested :
         /\ tested' = tested \cup {os}
         /\ acceptedFinder' =
               IF FinderAcceptsOs(os, platform)
               THEN acceptedFinder \cup {os} ELSE acceptedFinder
         /\ acceptedEc2' =
               IF Ec2AcceptsOs(os) THEN acceptedEc2 \cup {os} ELSE acceptedEc2
    /\ UNCHANGED <<script, platform, pc, calls, printed, exit_status, amiVars, s3Vars>>

NextOs == TestOs

SpecOs == InitOs /\ [][NextOs]_vars

\* C10: the sets of os-version strings the two scripts accept are not equal
\* and neither contains the other: some string is accepted by
\* aws_ami_finder.py and rejected by aws_ec2_find_amis.py, and some (non-empty)
\* string is accepted by aws_ec2_find_amis.py and rejected by aws_ami_finder.py.
C10_ValidatorsDisagree ==
    (tested = OsUniverse) =>
       /\ \E os \in acceptedFinder : os \notin acceptedEc2
       /\ \E os \in acceptedEc2 : os \notin acceptedFinder /\ os # <<>>

\* C10 witness: every string has been tried; rhel8 passed the first script
\* alone and amzn2-x the second alone
C10_Witness ==
    /\ tested = OsUniverse
    /\ rhel \o <<"8">> \in acceptedFinder \ acceptedEc2
    /\ amzn2 \o <<"-","x">> \in acceptedEc2 \ acceptedFinder

====
